---- MODULE Spec2Model ----
(***************************************************************************)
(* Model of package vlog (src/log.go): a registry of named, levelled       *)
(* Loggers on top of Go's log.Logger.                                      *)
(*                                                                         *)
(* Logger objects live in the sequence objs; the index of an object is its *)
(* identity (the *Logger pointer).  Each record merges the Logger struct   *)
(* (name, level) with the log.Logger it owns (prefix, out, flag); every    *)
(* Logger owns its own log.Logger, so the merge loses no aliasing.         *)
(* Text is a sequence of tokens; concatenation of strings is \o.           *)
(***************************************************************************)
EXTENDS Naturals, Sequences, FiniteSets

\* ------------------------------------------------------------------ bounds
\* API calls (GetLogger, setters, emissions) started in one behaviour.
MaxCalls == 3

\* ------------------------------------------------------- program constants
TRACE == 0
DEBUG == 1
INFO == 2
WARN == 3
ERROR == 4
CRITICAL == 5

Levels == TRACE..CRITICAL

\* The nil *Logger, and "no holder" of a mutex.
NIL == 0

\* log.Ldate | log.Ltime | log.Lmicroseconds | log.Lshortfile
defaultFlags == {"Ldate", "Ltime", "Lmicroseconds", "Lshortfile"}

\* ------------------------------------------------------------ input sets
Names == {"", "a", "b"}
Procs == {1, 2}
Writers == {"stderr", "buf"}

\* An operand of fmt.Sprint: its text and whether its kind is string.
Str(t) == [isString |-> TRUE, text |-> t]
Num(t) == [isString |-> FALSE, text |-> t]
ArgLists == {<<>>, <<Str(<<"x">>)>>, <<Num(<<"1">>)>>,
             <<Str(<<"x">>), Str(<<"y">>)>>, <<Num(<<"1">>), Num(<<"2">>)>>,
             <<Str(<<"x">>), Num(<<"1">>)>>, <<Num(<<"1">>), Str(<<"x">>)>>}
Formats == {<<"%v">>, <<"x=", "%v">>, <<"done", "\n">>}

\* The inputs of the registry specification.
MainFlagSets == {{}, {"Ldate", "Lmsgprefix"}}
MainArgs == <<Str(<<"x">>)>>
MainFormat == <<"%v">>
MainLevels == {DEBUG, ERROR}

\* The inputs of the level test specification.
GateNames == {"a"}

\* The inputs of the rendering specification.
FmtNames == {"a"}
FmtLevels == {TRACE, CRITICAL}

\* The inputs of the line layout specification.
LineFlagSets == {{}, {"Ldate", "Lmsgprefix"}, {"Ltime", "Lshortfile"}}
LineLevels == Levels
LineFormat == <<"done", "\n">>

VARIABLES objs, loggers, rootLogger, mu, outMu, dest, pc, loc, calls, firstRet

vars == <<objs, loggers, rootLogger, mu, outMu, dest, pc, loc, calls, firstRet>>

Ids == 1..Len(objs)

\* A goroutine's locals outside any call.
Idle == [name |-> "", parent |-> NIL, ret |-> NIL, lg |-> NIL,
         level |-> "", v |-> <<>>, msg |-> <<>>, line |-> <<>>, w |-> ""]

\* ---------------------------------------------------------------- fmt, log
\* fmt.Sprint: a space is added between operands when neither is a string.
RECURSIVE SprintFrom(_, _)
SprintFrom(ops, i) ==
    IF i > Len(ops) THEN <<>>
    ELSE (IF i > 1 /\ ~ops[i].isString /\ ~ops[i-1].isString THEN <<" ">> ELSE <<>>)
         \o ops[i].text \o SprintFrom(ops, i + 1)

\* Faulty variant of Sprint: a space between every two operands (fmt.Sprintln's
\* rule).
RECURSIVE SprintSpacedFrom(_, _)
SprintSpacedFrom(ops, i) ==
    IF i > Len(ops) THEN <<>>
    ELSE (IF i > 1 THEN <<" ">> ELSE <<>>) \o ops[i].text \o SprintSpacedFrom(ops, i + 1)

SprintSpaced(ops) == SprintSpacedFrom(ops, 1)

Sprint(ops) == SprintFrom(ops, 1)

\* fmt.Sprintf: each verb is replaced by the next argument's text.
RECURSIVE Sprintf(_, _)
Sprintf(format, args) ==
    IF format = <<>> THEN <<>>
    ELSE IF Head(format) = "%v"
         THEN (IF args = <<>> THEN <<"%!v(MISSING)">> ELSE Head(args).text)
              \o Sprintf(Tail(format), IF args = <<>> THEN args ELSE Tail(args))
         ELSE <<Head(format)>> \o Sprintf(Tail(format), args)

NumVerbs(format) == Cardinality({i \in 1..Len(format) : format[i] = "%v"})

\* The level tag each emit method passes to output.
Tag(L) ==
    CASE L = TRACE -> "trace "
      [] L = DEBUG -> "debug "
      [] L = INFO -> "info "
      [] L = WARN -> "warn "
      [] L = ERROR -> "error "
      [] L = CRITICAL -> "critical "

\* The fields log.Logger's flags produce: date, time(.micro), file:line.
HeaderFields(flag) ==
    (IF "Ldate" \in flag THEN <<"2009/01/23", " ">> ELSE <<>>)
    \o (IF "Ltime" \in flag \/ "Lmicroseconds" \in flag
        THEN <<"01:23:23">>
             \o (IF "Lmicroseconds" \in flag THEN <<".123123">> ELSE <<>>)
             \o <<" ">>
        ELSE <<>>)
    \o (IF "Lshortfile" \in flag THEN <<"d.go:23", ": ">> ELSE <<>>)

\* Faulty variant of LogLine: the prefix always right before the message, as
\* if Lmsgprefix were always set.
LogLinePrefixLast(prefix, flag, s) ==
    HeaderFields(flag) \o prefix \o s
    \o (IF s = <<>> \/ s[Len(s)] # "\n" THEN <<"\n">> ELSE <<>>)

\* log.Logger.Output as Logger.output calls it: the prefix (at the start of
\* the line unless Lmsgprefix is set, else right before the message), the
\* fields of the flags, the message, and a newline if the message has none.
LogLine(prefix, flag, s) ==
    (IF "Lmsgprefix" \notin flag THEN prefix ELSE <<>>)
    \o HeaderFields(flag)
    \o (IF "Lmsgprefix" \in flag THEN prefix ELSE <<>>)
    \o s
    \o (IF s = <<>> \/ s[Len(s)] # "\n" THEN <<"\n">> ELSE <<>>)

\* Faulty variant of OutputMsg: the operands joined as fmt.Sprintln joins
\* them, a space between every two.
OutputMsgSpaced(level, v) == SprintSpaced(<<Str(<<level>>)>> \o v)

\* The message Logger.output(level, v...) hands to log.Logger.Output:
\* fmt.Sprint(append([]interface{}{level}, v...)...).
OutputMsg(level, v) == Sprint(<<Str(<<level>>)>> \o v)

\* Faulty variant of Passes: a strict comparison.
PassesStrict(L, threshold) == L > threshold

\* The test every emit method makes: LEVEL >= l.level.
Passes(L, threshold) == L >= threshold

\* ------------------------------------------------------------------- init
Init ==
    /\ objs = <<[name |-> "", level |-> TRACE, prefix |-> <<>>,
                 out |-> "stderr", flag |-> defaultFlags]>>
    /\ loggers = [n \in {""} |-> 1]
    /\ rootLogger = 1
    /\ mu = NIL
    /\ outMu = <<NIL>>
    /\ dest = [w \in Writers |-> <<>>]
    /\ pc = [p \in Procs |-> "idle"]
    /\ loc = [p \in Procs |-> Idle]
    /\ calls = 0
    /\ firstRet = [n \in Names |-> NIL]

\* -------------------------------------------------------------- GetLogger
\* Faulty variant of Lock: does not wait for the holder.
LockNoWait(p) == mu' = p

\* mu.Lock()
Lock(p) == mu = NIL /\ mu' = p

\* the deferred mu.Unlock()
Unlock(p) == mu' = NIL

\* GetLogger(name, parent) is entered; the caller then waits for mu.
GetLoggerCall(p, name, parent) ==
    /\ pc[p] = "idle"
    /\ calls < MaxCalls
    /\ calls' = calls + 1
    /\ pc' = [pc EXCEPT ![p] = "lock"]
    /\ loc' = [loc EXCEPT ![p] = [Idle EXCEPT !.name = name, !.parent = parent]]
    /\ UNCHANGED <<objs, loggers, rootLogger, mu, outMu, dest, firstRet>>

GetLoggerLock(p) ==
    /\ pc[p] = "lock"
    /\ Lock(p)
    /\ pc' = [pc EXCEPT ![p] = "lookup"]
    /\ UNCHANGED <<objs, loggers, rootLogger, outMu, dest, loc, calls, firstRet>>

\* Faulty variant of GetLoggerLookup: the entry found is ignored.
GetLoggerLookupMiss(p) ==
    /\ pc[p] = "lookup"
    /\ pc' = [pc EXCEPT ![p] = "create"]
    /\ UNCHANGED <<objs, loggers, rootLogger, mu, outMu, dest, loc, calls, firstRet>>

\* if logger, found := loggers[name]; found { return logger }
GetLoggerLookup(p) ==
    /\ pc[p] = "lookup"
    /\ IF loc[p].name \in DOMAIN loggers
       THEN /\ pc' = [pc EXCEPT ![p] = "unlock"]
            /\ loc' = [loc EXCEPT ![p].ret = loggers[loc[p].name]]
       ELSE /\ pc' = [pc EXCEPT ![p] = "create"]
            /\ loc' = loc
    /\ UNCHANGED <<objs, loggers, rootLogger, mu, outMu, dest, calls, firstRet>>

\* Faulty variant of newLogger: the new Logger is also bound to the root's
\* key, following the reassigned rootLogger variable.
newLoggerRebindsRoot(p, name, out, flag) ==
    IF name = ""
    THEN /\ loc' = [loc EXCEPT ![p].ret = loggers[""]]
         /\ UNCHANGED <<objs, loggers, rootLogger, outMu>>
    ELSE /\ objs' = Append(objs, [name |-> name, level |-> TRACE,
                                  prefix |-> <<name, " ">>,
                                  out |-> out, flag |-> flag])
         /\ outMu' = Append(outMu, NIL)
         /\ rootLogger' = Len(objs) + 1
         /\ loggers' = [n \in DOMAIN loggers \cup {name} |-> Len(objs) + 1]
         /\ loc' = [loc EXCEPT ![p].ret = Len(objs) + 1]

\* newLogger(name, out, flag), its result left in loc[p].ret.
newLogger(p, name, out, flag) ==
    IF name = ""
    THEN /\ loc' = [loc EXCEPT ![p].ret = loggers[""]]
         /\ UNCHANGED <<objs, loggers, rootLogger, outMu>>
    ELSE /\ objs' = Append(objs, [name |-> name, level |-> TRACE,
                                  prefix |-> <<name, " ">>,
                                  out |-> out, flag |-> flag])
         /\ outMu' = Append(outMu, NIL)
         /\ rootLogger' = Len(objs) + 1
         /\ loggers' = [n \in DOMAIN loggers \cup {name} |->
                           IF n = name THEN Len(objs) + 1 ELSE loggers[n]]
         /\ loc' = [loc EXCEPT ![p].ret = Len(objs) + 1]

\* Faulty variant of InheritFrom: reads the package variable rootLogger, which
\* newLogger reassigns, instead of loggers[""].
InheritFromGlobal(parent) == IF parent # NIL THEN parent ELSE rootLogger

\* The Logger whose writer and flags the new Logger starts from: parent, or
\* the local rootLogger := loggers[""].
InheritFrom(parent) == IF parent # NIL THEN parent ELSE loggers[""]

GetLoggerCreate(p) ==
    /\ pc[p] = "create"
    /\ newLogger(p, loc[p].name, objs[InheritFrom(loc[p].parent)].out,
                 objs[InheritFrom(loc[p].parent)].flag)
    /\ pc' = [pc EXCEPT ![p] = "unlock"]
    /\ UNCHANGED <<mu, dest, calls, firstRet>>

GetLoggerReturn(p) ==
    /\ pc[p] = "unlock"
    /\ Unlock(p)
    /\ firstRet' = IF firstRet[loc[p].name] = NIL
                   THEN [firstRet EXCEPT ![loc[p].name] = loc[p].ret]
                   ELSE firstRet
    /\ pc' = [pc EXCEPT ![p] = "idle"]
    /\ loc' = [loc EXCEPT ![p] = Idle]
    /\ UNCHANGED <<objs, loggers, rootLogger, outMu, dest, calls>>

\* ---------------------------------------------------------- configuration
\* l.logger.SetFlags(flag)
SetFlags(p, l, flag) ==
    /\ pc[p] = "idle"
    /\ calls < MaxCalls
    /\ calls' = calls + 1
    /\ objs' = [objs EXCEPT ![l].flag = flag]
    /\ UNCHANGED <<loggers, rootLogger, mu, outMu, dest, pc, loc, firstRet>>

\* l.logger.SetOutput(w): log.Logger swaps its writer under its own mutex.
SetOutput(p, l, w) ==
    /\ pc[p] = "idle"
    /\ calls < MaxCalls
    /\ outMu[l] = NIL
    /\ calls' = calls + 1
    /\ objs' = [objs EXCEPT ![l].out = w]
    /\ UNCHANGED <<loggers, rootLogger, mu, outMu, dest, pc, loc, firstRet>>

\* Faulty variant of SetLevel: the level kept in one place for all Loggers.
SetLevelShared(p, l, lvl) ==
    /\ pc[p] = "idle"
    /\ calls < MaxCalls
    /\ calls' = calls + 1
    /\ objs' = [i \in Ids |-> [objs[i] EXCEPT !.level = lvl]]
    /\ UNCHANGED <<loggers, rootLogger, mu, outMu, dest, pc, loc, firstRet>>

\* l.level = lvl
SetLevel(p, l, lvl) ==
    /\ pc[p] = "idle"
    /\ calls < MaxCalls
    /\ calls' = calls + 1
    /\ objs' = [objs EXCEPT ![l].level = lvl]
    /\ UNCHANGED <<loggers, rootLogger, mu, outMu, dest, pc, loc, firstRet>>

\* ---------------------------------------------------------------- emission
\* The start of an emit method at level L on Logger l: the level test and,
\* when it passes, the call output(tag, v...) up to the rendered message.
EmitWith(p, l, L, v) ==
    /\ pc[p] = "idle"
    /\ calls < MaxCalls
    /\ calls' = calls + 1
    /\ IF Passes(L, objs[l].level)
       THEN /\ pc' = [pc EXCEPT ![p] = "output"]
            /\ loc' = [loc EXCEPT ![p] = [Idle EXCEPT !.lg = l, !.level = Tag(L), !.v = v,
                                                      !.msg = OutputMsg(Tag(L), v)]]
       ELSE UNCHANGED <<pc, loc>>
    /\ UNCHANGED <<objs, loggers, rootLogger, mu, outMu, dest, firstRet>>

\* Trace, Debug, Info, Warn, Error, Critical: output(tag, v...)
Emit(p, l, L, args) == EmitWith(p, l, L, args)

\* Tracef, Debugf, Infof, Warnf, Errorf, Criticalf:
\* output(tag, fmt.Sprintf(format, v...))
Emitf(p, l, L, format, args) == EmitWith(p, l, L, <<Str(Sprintf(format, args))>>)

\* log.Logger.Output, first half: takes the log.Logger's mutex, formats the
\* line and reads the writer.
OutputBegin(p) ==
    /\ pc[p] = "output"
    /\ outMu[loc[p].lg] = NIL
    /\ outMu' = [outMu EXCEPT ![loc[p].lg] = p]
    /\ loc' = [loc EXCEPT ![p].line = LogLine(objs[loc[p].lg].prefix,
                                              objs[loc[p].lg].flag, loc[p].msg),
                          ![p].w = objs[loc[p].lg].out]
    /\ pc' = [pc EXCEPT ![p] = "writing"]
    /\ UNCHANGED <<objs, loggers, rootLogger, mu, dest, calls, firstRet>>

\* log.Logger.Output, second half: the Write to the writer completes and the
\* mutex is released.
OutputEnd(p) ==
    /\ pc[p] = "writing"
    /\ dest' = [dest EXCEPT ![loc[p].w] = Append(@, loc[p].line)]
    /\ outMu' = [outMu EXCEPT ![loc[p].lg] = NIL]
    /\ pc' = [pc EXCEPT ![p] = "idle"]
    /\ loc' = [loc EXCEPT ![p] = Idle]
    /\ UNCHANGED <<objs, loggers, rootLogger, mu, calls, firstRet>>

\* ------------------------------------------------------------ specification
\* The registry and the configuration: two goroutines, every name, parent,
\* writer and threshold, one message per entry point.
Next ==
    \E p \in Procs :
        \/ \E name \in Names, parent \in {NIL} \cup Ids : GetLoggerCall(p, name, parent)
        \/ GetLoggerLock(p)
        \/ GetLoggerLookup(p)
        \/ GetLoggerCreate(p)
        \/ GetLoggerReturn(p)
        \/ \E l \in Ids, flag \in MainFlagSets : SetFlags(p, l, flag)
        \/ \E l \in Ids, w \in Writers : SetOutput(p, l, w)
        \/ \E l \in Ids, lvl \in Levels : SetLevel(p, l, lvl)
        \/ \E l \in Ids, L \in MainLevels : Emit(p, l, L, MainArgs)
        \/ \E l \in Ids, L \in MainLevels : Emitf(p, l, L, MainFormat, MainArgs)
        \/ OutputBegin(p)
        \/ OutputEnd(p)

Spec == Init /\ [][Next]_vars

\* The rendering of messages: one goroutine, every argument list and format.
NextFmt ==
    \/ \E name \in FmtNames : GetLoggerCall(1, name, NIL)
    \/ GetLoggerLock(1)
    \/ GetLoggerLookup(1)
    \/ GetLoggerCreate(1)
    \/ GetLoggerReturn(1)
    \/ \E l \in Ids, L \in FmtLevels, args \in ArgLists : Emit(1, l, L, args)
    \/ \E l \in Ids, L \in FmtLevels, format \in Formats :
          \E args \in {a \in ArgLists : Len(a) = NumVerbs(format)} :
             Emitf(1, l, L, format, args)
    \/ OutputBegin(1)
    \/ OutputEnd(1)

SpecFmt == Init /\ [][NextFmt]_vars

\* The level test: two goroutines, the root and one named Logger, every
\* threshold and every emit method.
NextGate ==
    \E p \in Procs :
        \/ \E name \in GateNames : GetLoggerCall(p, name, NIL)
        \/ GetLoggerLock(p)
        \/ GetLoggerLookup(p)
        \/ GetLoggerCreate(p)
        \/ GetLoggerReturn(p)
        \/ \E l \in Ids, w \in Writers : SetOutput(p, l, w)
        \/ \E l \in Ids, lvl \in Levels : SetLevel(p, l, lvl)
        \/ \E l \in Ids, L \in Levels : Emit(p, l, L, MainArgs)
        \/ \E l \in Ids, L \in Levels : Emitf(p, l, L, MainFormat, MainArgs)
        \/ OutputBegin(p)
        \/ OutputEnd(p)

SpecGate == Init /\ [][NextGate]_vars

\* The layout of a line: one goroutine, every flag set and level, a message
\* with and without its own newline.
NextLine ==
    \/ \E name \in FmtNames : GetLoggerCall(1, name, NIL)
    \/ GetLoggerLock(1)
    \/ GetLoggerLookup(1)
    \/ GetLoggerCreate(1)
    \/ GetLoggerReturn(1)
    \/ \E l \in Ids, flag \in LineFlagSets : SetFlags(1, l, flag)
    \/ \E l \in Ids, L \in LineLevels : Emit(1, l, L, MainArgs)
    \/ \E l \in Ids, L \in LineLevels : Emitf(1, l, L, LineFormat, <<>>)
    \/ OutputBegin(1)
    \/ OutputEnd(1)

SpecLine == Init /\ [][NextLine]_vars

\* ------------------------------------------------------------------ claims
\* The goroutines inside GetLogger's critical section.
InCritical == {p \in Procs : pc[p] \in {"lookup", "create", "unlock"}}

\* The newline log.Logger.Output adds to a message that has none.
Newline(s) == IF s = <<>> \/ s[Len(s)] # "\n" THEN <<"\n">> ELSE <<>>

\* C1: a registry entry is never removed or replaced; a GetLogger call for a
\* name returns the instance the first call for that name returned, whatever
\* its parent argument and whatever happened in between; and the steps of a
\* GetLogger call for a registered name leave every Logger's threshold,
\* destination and flags as they were.
SameInstance ==
    [][/\ \A n \in DOMAIN loggers : n \in DOMAIN loggers' /\ loggers'[n] = loggers[n]
       /\ \A p \in Procs :
            /\ (GetLoggerReturn(p) /\ firstRet[loc[p].name] # NIL)
                  => loc[p].ret = firstRet[loc[p].name]
            /\ ((GetLoggerLock(p) \/ GetLoggerLookup(p) \/ GetLoggerCreate(p)
                   \/ GetLoggerReturn(p)) /\ loc[p].name \in DOMAIN loggers)
                  => objs' = objs]_vars

\* C1's case: a second GetLogger("a", q) with a non-nil q is about to return
\* after a SetLevel on the instance the first call returned.
SecondCallReturns ==
    \E p \in Procs :
        /\ pc[p] = "unlock"
        /\ loc[p].name = "a"
        /\ loc[p].parent # NIL
        /\ firstRet["a"] # NIL
        /\ objs[firstRet["a"]].level = INFO

\* C2: the entry under "" always exists and designates the Logger init
\* created; a GetLogger("", p) call returns it, never reaches the creation
\* step, and no Logger other than the root is ever named "".
RootEntryFixed ==
    /\ "" \in DOMAIN loggers
    /\ loggers[""] = 1
    /\ objs[1].name = ""
    /\ \A i \in Ids : objs[i].name = "" => i = 1
    /\ \A p \in Procs :
          /\ (pc[p] = "unlock" /\ loc[p].name = "") => loc[p].ret = 1
          /\ (pc[p] \in {"lock", "lookup", "create", "unlock"} /\ loc[p].name = "")
                => pc[p] # "create"

\* C2's case: GetLogger("", p) with a non-nil p is about to return after a
\* named Logger was created.
EmptyNameAfterNamed ==
    \E p \in Procs :
        /\ pc[p] = "unlock"
        /\ loc[p].name = ""
        /\ loc[p].parent # NIL
        /\ Len(objs) >= 2

\* C3: an emit call at level L on Logger l, plain or formatted, goes on to
\* write iff L >= the threshold l has when the call starts, and otherwise
\* returns with every destination untouched; a destination changes only by
\* the one line a passed emission appends to the writer its Logger had when
\* the write began; SetLevel changes the threshold only: it touches neither
\* the destinations nor an emission in flight.
LevelGate ==
    [][/\ \A p \in Procs, l \in Ids, L \in Levels :
            (Emit(p, l, L, MainArgs) \/ Emitf(p, l, L, MainFormat, MainArgs))
               => IF L >= objs[l].level
                  THEN pc'[p] = "output" /\ loc'[p].lg = l /\ Head(loc'[p].msg) = Tag(L)
                  ELSE pc'[p] = "idle" /\ dest' = dest
       /\ \A p \in Procs :
            /\ OutputBegin(p) => loc'[p].w = objs[loc[p].lg].out /\ dest' = dest
            /\ (pc[p] # "output" /\ pc'[p] = "output") => pc[p] = "idle"
       /\ dest' # dest =>
            \E p \in Procs :
               /\ pc[p] = "writing"
               /\ pc'[p] = "idle"
               /\ Len(loc[p].line) > 0
               /\ dest' = [dest EXCEPT ![loc[p].w] = Append(@, loc[p].line)]
       /\ \A p \in Procs, l \in Ids, lvl \in Levels :
            SetLevel(p, l, lvl)
               => /\ objs'[l].level = lvl
                  /\ dest' = dest
                  /\ pc' = pc
                  /\ loc' = loc]_vars

\* C3's case: with the root's threshold set to INFO, an emission at INFO (the
\* boundary) has been written to the root's destination.
BoundaryLineWritten ==
    /\ objs[1].level = INFO
    /\ Len(dest["stderr"]) = 1
    /\ \E k \in 1..Len(dest["stderr"][1]) : dest["stderr"][1][k] = "info "

\* C4: at most one goroutine is between mu.Lock and mu.Unlock; at most one
\* Logger is ever created for a name; every caller about to return holds the
\* instance registered under its name, the one first returned for it.
GetLoggerAtomic ==
    /\ Cardinality(InCritical) <= 1
    /\ \A p \in InCritical : mu = p
    /\ \A n \in Names : Cardinality({i \in Ids : objs[i].name = n}) <= 1
    /\ \A p \in Procs :
          pc[p] = "unlock"
             => /\ loc[p].name \in DOMAIN loggers
                /\ loc[p].ret = loggers[loc[p].name]
                /\ objs[loc[p].ret].name = loc[p].name
                /\ firstRet[loc[p].name] \in {NIL, loc[p].ret}

\* C4's case: two goroutines are inside GetLogger("a", ...) at once, one
\* having created the Logger, the other waiting for the mutex.
ConcurrentSameName ==
    /\ pc[1] = "unlock"
    /\ pc[2] = "lock"
    /\ loc[1].name = "a"
    /\ loc[2].name = "a"
    /\ loc[1].ret = 2
    /\ Len(objs) = 2

\* C5: the creation step of GetLogger(name, parent) for an unregistered,
\* non-empty name appends one Logger, registered under name and returned,
\* with that name, threshold TRACE, and the destination and flags that
\* parent (if non-nil) or else the Logger registered under "" has then.
CreationInherits ==
    [][\A p \in Procs :
          (GetLoggerCreate(p) /\ loc[p].name # "")
             => LET id == Len(objs) + 1
                    from == IF loc[p].parent # NIL THEN loc[p].parent ELSE loggers[""]
                IN /\ Len(objs') = id
                   /\ \A i \in Ids : objs'[i] = objs[i]
                   /\ objs'[id].name = loc[p].name
                   /\ objs'[id].level = TRACE
                   /\ objs'[id].out = objs[from].out
                   /\ objs'[id].flag = objs[from].flag
                   /\ loggers'[loc[p].name] = id
                   /\ loc'[p].ret = id]_vars

\* C5's case: "b" was created with a nil parent after SetOutput moved the root
\* to "buf", while the Logger created last before it, "a", keeps "stderr".
CreatedFromChangedRoot ==
    \E p \in Procs :
        /\ pc[p] = "unlock"
        /\ loc[p].parent = NIL
        /\ loc[p].ret = 3
        /\ Len(objs) = 3
        /\ objs[3].out = "buf"
        /\ objs[2].out = "stderr"
        /\ objs[1].out = "buf"

\* C6: SetLevel, SetOutput and SetFlags on one Logger leave every other
\* Logger's threshold, destination and flags unchanged.
Decoupled ==
    [][\A p \in Procs, l \in Ids :
          ((\E lvl \in Levels : SetLevel(p, l, lvl))
             \/ (\E w \in Writers : SetOutput(p, l, w))
             \/ (\E flag \in MainFlagSets : SetFlags(p, l, flag)))
             => /\ Len(objs') = Len(objs)
                /\ \A j \in Ids \ {l} : objs'[j] = objs[j]]_vars

\* C6's case: the root's destination was changed to "buf" while the child "a"
\* created from it keeps "stderr", where a line of "a" has been written.
ChildKeepsDestination ==
    /\ Len(objs) = 2
    /\ objs[1].out = "buf"
    /\ objs[2].out = "stderr"
    /\ Len(dest["stderr"]) = 1
    /\ Head(dest["stderr"][1]) = "a"

\* C7 as stated: the line a named Logger writes is the fields of the flags,
\* then the name and a space, then the level tag and message, then a newline.
FlagsBeforeName ==
    [][\A p \in Procs :
          (OutputBegin(p) /\ objs[loc[p].lg].name # "")
             => loc'[p].line = HeaderFields(objs[loc[p].lg].flag)
                               \o <<objs[loc[p].lg].name, " ">>
                               \o loc[p].msg \o Newline(loc[p].msg)]_vars

\* C7 amended: the message starts with the level tag; the line a named Logger
\* writes is the name and a space, then the fields of the flags (the other
\* way round only when Lmsgprefix is set), then the message, then a newline
\* unless the message ends with one.
NameBeforeFlags ==
    [][\A p \in Procs :
          /\ \A l \in Ids, L \in Levels :
                ((Emit(p, l, L, MainArgs) \/ Emitf(p, l, L, LineFormat, <<>>))
                   /\ pc'[p] = "output") => Head(loc'[p].msg) = Tag(L)
          /\ (OutputBegin(p) /\ objs[loc[p].lg].name # "")
                => LET o == objs[loc[p].lg]
                   IN loc'[p].line =
                         (IF "Lmsgprefix" \in o.flag
                          THEN HeaderFields(o.flag) \o <<o.name, " ">>
                          ELSE <<o.name, " ">> \o HeaderFields(o.flag))
                         \o loc[p].msg \o Newline(loc[p].msg)]_vars

\* C7's case: the Logger "a", with flags that produce a time and a file
\* field, is writing a line, which starts with its name.
NamedLineBeingWritten ==
    /\ pc[1] = "writing"
    /\ Len(objs) = 2
    /\ loc[1].lg = 2
    /\ objs[2].flag = {"Ltime", "Lshortfile"}
    /\ loc[1].line[1] = "a"
    /\ loc[1].line[3] = "01:23:23"

\* The arguments' texts with a space between every two of them.
RECURSIVE SpaceJoined(_, _)
SpaceJoined(args, i) ==
    IF i > Len(args) THEN <<>>
    ELSE (IF i > 1 THEN <<" ">> ELSE <<>>) \o args[i].text \o SpaceJoined(args, i + 1)

\* The arguments' texts with a space between two of them exactly when neither
\* is a string.
RECURSIVE NonStringSpaced(_, _)
NonStringSpaced(args, i) ==
    IF i > Len(args) THEN <<>>
    ELSE (IF i > 1 /\ ~args[i].isString /\ ~args[i-1].isString THEN <<" ">> ELSE <<>>)
         \o args[i].text \o NonStringSpaced(args, i + 1)

\* C8 as stated: the message output renders is the level tag followed, with
\* no separator, by the arguments joined by single spaces.
PlainSpaceJoined ==
    \A p \in Procs :
        pc[p] \in {"output", "writing"}
           => loc[p].msg = <<loc[p].level>> \o SpaceJoined(loc[p].v, 1)

\* C8 amended: the message output renders is the level tag followed, with no
\* separator, by the arguments, with a single space between two adjacent
\* arguments exactly when neither of them is a string.
PlainNonStringSpaced ==
    \A p \in Procs :
        pc[p] \in {"output", "writing"}
           => /\ loc[p].level \in {Tag(L) : L \in Levels}
              /\ loc[p].msg = <<loc[p].level>> \o NonStringSpaced(loc[p].v, 1)

\* C8's case: a plain emission with two adjacent string arguments has passed
\* the level test on the Logger "a".
TwoStringsRendered ==
    /\ pc[1] = "output"
    /\ loc[1].lg = 2
    /\ loc[1].v = <<Str(<<"x">>), Str(<<"y">>)>>
    /\ loc[1].msg = <<"critical ", "x", "y">>

\* C9: the package variable rootLogger always designates the Logger named ""
\* that init created.
RootRefFixed == rootLogger = 1 /\ objs[rootLogger].name = ""

\* C10: two writes to the same destination never overlap in time.
WritesSerialized ==
    \A p \in Procs, q \in Procs :
        (p # q /\ pc[p] = "writing" /\ pc[q] = "writing") => loc[p].w # loc[q].w

====
